---- MODULE Spec2Model ----
(***************************************************************************)
(* A model of the Namecheap registrar API client (src/src/namecheap.py),   *)
(* its domain-name splitter (src/src/utils.py) and the add-host composite  *)
(* of the tool layer (src/src/main.py).                                    *)
(*                                                                         *)
(* Python strings that the code takes apart (domain names) are sequences   *)
(* of one-character strings; strings the code only copies or concatenates  *)
(* are TLA+ strings.  A Python dict is a function from its keys; an        *)
(* exception is a record [exc, msg].                                       *)
(***************************************************************************)
EXTENDS Integers, Sequences, FiniteSets, TLC

VARIABLES
    pc,           \* "idle" or "returned": a client operation has run (Spec)
    call,         \* the operation invoked and its arguments (Spec)
    sent,         \* the requests handed to requests.post, in order (Spec)
    reply,        \* what the transport gave back for the request (Spec)
    result,       \* what the operation returned or raised (Spec)
    remote,       \* the registrar's host records of the domain a.b (SpecAddHost)
    writer,       \* who changed remote last: a task, "external" or "nobody"
    task,         \* each add_host invocation's position and locals (SpecAddHost)
    started,      \* how many add_host invocations have begun (SpecAddHost)
    external,     \* how many external modifications were made (SpecAddHost)
    env,          \* the environment main.py is started in (SpecMain)
    client,       \* the Namecheap object main.py holds, once constructed (SpecMain)
    split_pc,     \* "start" or "done": whether the splitter has run (SpecSplit)
    split_in,     \* the splitter's argument domain_name (SpecSplit)
    split_out     \* what extract_domain_parts did with it (SpecSplit)

splitVars == <<split_pc, split_in, split_out>>
clientVars == <<pc, call, sent, reply, result>>
addHostVars == <<remote, writer, task, started, external>>
mainVars == <<env, client>>
vars == <<pc, call, sent, reply, result, remote, writer, task, started, external,
          env, client, split_pc, split_in, split_out>>

(***************************************************************************)
(* Bounds of the model.                                                    *)
(***************************************************************************)
MaxDomainLen == 5
\* the most error elements of a response
MaxErrors == 2
\* the most repeated elements (host, forward, Nameserver, ...) of a result
MaxElems == 2
\* the longest list argument (hosts, forwards, domains) of a call
MaxListLen == 2
\* the longest nameserver list given to set_custom
MaxNsListLen == 13
\* the most host elements of a get-hosts result
MaxHostElems == 3
\* the most add_host invocations of a behaviour
MaxCalls == 2
\* the most external modifications of a behaviour
MaxExternal == 1

Alphabet == {"a", "b", "c", "."}

RECURSIVE SeqsUpTo(_, _)
\* every sequence over the set `chars` of length at most n
SeqsUpTo(chars, n) ==
    IF n = 0 THEN {<<>>}
    ELSE LET shorter == SeqsUpTo(chars, n - 1)
         IN  shorter \cup {Append(s, c) : s \in shorter, c \in chars}

DomainNames == SeqsUpTo(Alphabet, MaxDomainLen)

(***************************************************************************)
(* Python's str primitives used by the code.                               *)
(***************************************************************************)
RECURSIVE Str(_)
\* the Python string whose characters are the sequence s
Str(s) == IF s = <<>> THEN "" ELSE Head(s) \o Str(Tail(s))

\* the index of the first sep in s, 0 when there is none
FirstIndex(s, sep) ==
    IF \E i \in 1..Len(s) : s[i] = sep
    THEN CHOOSE i \in 1..Len(s) : s[i] = sep /\ \A j \in 1..(i - 1) : s[j] # sep
    ELSE 0

\* whether the name d has a '.'
HasDot(d) == \E i \in 1..Len(d) : d[i] = "."

RECURSIVE str_split(_, _)
\* s.split(sep): the segments between the separators, empty ones kept
str_split(s, sep) ==
    LET i == FirstIndex(s, sep)
    IN  IF i = 0 THEN <<s>>
        ELSE <<SubSeq(s, 1, i - 1)>> \o str_split(SubSeq(s, i + 1, Len(s)), sep)

RECURSIVE str_join(_, _)
\* sep.join(parts)
str_join(sep, parts) ==
    IF parts = <<>> THEN <<>>
    ELSE IF Len(parts) = 1 THEN parts[1]
    ELSE parts[1] \o <<sep>> \o str_join(sep, Tail(parts))

(***************************************************************************)
(* utils.extract_domain_parts                                              *)
(***************************************************************************)
\* a call that returned `value`
Returned(value) == [raised |-> FALSE, value |-> value]
\* a call that raised exception class `exc` with message `msg`
Raised(exc, msg) == [raised |-> TRUE, exc |-> exc, msg |-> msg]

\* the value of a result variable before any call
NotCalled == [raised |-> FALSE]

\* mutant: the label is cut at the last dot instead of the first
extract_domain_parts_lastdot(domain_name) ==
    LET domain_parts == str_split(domain_name, ".")
        n == Len(domain_parts)
    IN  IF n >= 2
        THEN Returned([sld |-> str_join(".", SubSeq(domain_parts, 1, n - 1)),
                       tld |-> domain_parts[n]])
        ELSE Raised("ValueError", "Invalid domain name: " \o Str(domain_name))

\* mutant: a dotless name is taken as a label with an empty suffix
extract_domain_parts_lenient(domain_name) ==
    LET domain_parts == str_split(domain_name, ".")
    IN  IF Len(domain_parts) >= 1
        THEN Returned([sld |-> domain_parts[1],
                       tld |-> str_join(".", Tail(domain_parts))])
        ELSE Raised("ValueError", "Invalid domain name: " \o Str(domain_name))

extract_domain_parts(domain_name) ==
    LET domain_parts == str_split(domain_name, ".")
    IN  IF Len(domain_parts) >= 2
        THEN Returned([sld |-> domain_parts[1],
                       tld |-> str_join(".", Tail(domain_parts))])
        ELSE Raised("ValueError", "Invalid domain name: " \o Str(domain_name))


(***************************************************************************)
(* Python values and dict primitives.                                      *)
(***************************************************************************)
\* Python's None where a string may stand (no string of the model equals it)
PyNone == "<None>"

\* the empty dict
EmptyDict == [k \in {} |-> ""]

\* {**a, **b}: the keys of both, b's value where both have the key
dict_merge(a, b) ==
    [k \in (DOMAIN a) \cup (DOMAIN b) |-> IF k \in DOMAIN b THEN b[k] ELSE a[k]]

\* d.get(key, default)
dict_get(d, key, default) == IF key \in DOMAIN d THEN d[key] ELSE default

\* s.lower(), on the attribute values of the model
lower(s) ==
    CASE s \in {"true", "True", "TRUE"} -> "true"
      [] s \in {"false", "False", "FALSE"} -> "false"
      [] s \in {"locked", "Locked", "LOCKED"} -> "locked"
      [] s \in {"enabled", "Enabled", "ENABLED"} -> "enabled"
      [] OTHER -> s

(***************************************************************************)
(* xml.etree.ElementTree: an element is its namespace, tag, attributes,    *)
(* text ("" for no text: ElementTree gives None) and children.             *)
(***************************************************************************)
\* NAMESPACE['nc']
NC == "http://api.namecheap.com/xml.response"
\* an element outside every namespace
NoNS == ""

Element(ns, tag, attrib, text, children) ==
    [ns |-> ns, tag |-> tag, attrib |-> attrib, text |-> text, children |-> children]

RECURSIVE DescendantsOf(_)
\* the elements below the elements es, in document order
DescendantsOf(es) ==
    IF Len(es) = 0 THEN <<>>
    ELSE <<Head(es)>> \o DescendantsOf(Head(es).children) \o DescendantsOf(Tail(es))

Matches(e, ns, tag) == e.ns = ns /\ e.tag = tag

\* the set of the elements of a sequence
Range(es) == {es[i] : i \in 1..Len(es)}

\* elem.findall('.//ns:tag'): every descendant with that name, document order
findall(elem, ns, tag) ==
    SelectSeq(DescendantsOf(elem.children), LAMBDA e : Matches(e, ns, tag))

\* elem.findall('ns:tag'): every child with that name
findall_children(elem, ns, tag) ==
    SelectSeq(elem.children, LAMBDA e : Matches(e, ns, tag))

RECURSIVE ChildrenOfAll(_, _, _)
\* the children named ns:tag of each element of parents, in order
ChildrenOfAll(parents, ns, tag) ==
    IF Len(parents) = 0 THEN <<>>
    ELSE findall_children(Head(parents), ns, tag) \o ChildrenOfAll(Tail(parents), ns, tag)

\* elem.findall('.//ns:ptag/ns:tag')
findall_path(elem, ns, ptag, tag) == ChildrenOfAll(findall(elem, ns, ptag), ns, tag)

\* elem.find(...) is the first of findall(...), or None: a sequence of 0 or 1
first(es) == IF Len(es) = 0 THEN <<>> ELSE <<es[1]>>

find(elem, ns, tag) == first(findall(elem, ns, tag))
find_child(elem, ns, tag) == first(findall_children(elem, ns, tag))
find_path(elem, ns, ptag, tag) == first(findall_path(elem, ns, ptag, tag))

\* `x is not None` for the result of find
IsNotNone(found) == Len(found) > 0

\* attrib.get(attr, '').lower() == 'true'
attr_is_true(elem, attr) == lower(dict_get(elem.attrib, attr, "")) = "true"

(***************************************************************************)
(* Namecheap.__init__ and Namecheap._make_request                          *)
(***************************************************************************)
Namecheap_init(api_key, username, client_ip, sandbox) ==
    [base_url |-> IF sandbox THEN "https://api.sandbox.namecheap.com/xml.response"
                  ELSE "https://api.namecheap.com/xml.response",
     common_params |-> [ApiUser |-> username, ApiKey |-> api_key,
                        UserName |-> username, ClientIp |-> client_ip]]

\* the client the tool layer constructs (main.py), with SANDBOX unset
namecheap == Namecheap_init("key", "user", "192.0.2.1", TRUE)

\* the arguments of requests.post
Request(self, command, params) ==
    [url |-> self.base_url,
     params |-> dict_merge(dict_merge(self.common_params, [Command |-> command]), params)]

\* mutant: the last error element is reported instead of the first
make_request_last_error(a_reply) ==
    IF a_reply.kind = "ConnectionError"
    THEN Raised("ConnectionError", "requests.post failed")
    ELSE IF a_reply.kind = "malformed"
    THEN Raised("ParseError", "ET.fromstring failed")
    ELSE LET root == a_reply.root
             status == dict_get(root.attrib, "Status", PyNone)
             errors == findall(root, NC, "Error")
         IN  IF status = "ERROR"
             THEN IF Len(errors) > 0
                  THEN LET error == errors[Len(errors)]
                           error_number == dict_get(error.attrib, "Number", "Unknown")
                           error_message == IF error.text # "" THEN error.text
                                            ELSE "Unknown error"
                       IN  Raised("Exception", "Namecheap API Error " \o error_number
                                               \o ": " \o error_message)
                  ELSE Raised("Exception", "Unknown Namecheap API Error")
             ELSE Returned(root)

\* mutant: an ERROR status without an error element is let through
make_request_lets_through(a_reply) ==
    IF a_reply.kind = "ConnectionError"
    THEN Raised("ConnectionError", "requests.post failed")
    ELSE IF a_reply.kind = "malformed"
    THEN Raised("ParseError", "ET.fromstring failed")
    ELSE LET root == a_reply.root
             status == dict_get(root.attrib, "Status", PyNone)
             errors == findall(root, NC, "Error")
         IN  IF status = "ERROR" /\ Len(errors) > 0
             THEN LET error == errors[1]
                      error_number == dict_get(error.attrib, "Number", "Unknown")
                      error_message == IF error.text # "" THEN error.text
                                       ELSE "Unknown error"
                  IN  Raised("Exception", "Namecheap API Error " \o error_number
                                          \o ": " \o error_message)
             ELSE Returned(root)

\* mutant: a failed post or an unparsable body is taken for an empty document
make_request_swallows(a_reply) ==
    IF a_reply.kind \in {"ConnectionError", "malformed"}
    THEN Returned(Element(NC, "ApiResponse", EmptyDict, "", <<>>))
    ELSE LET root == a_reply.root
             status == dict_get(root.attrib, "Status", PyNone)
             errors == findall(root, NC, "Error")
         IN  IF status = "ERROR"
             THEN IF Len(errors) > 0
                  THEN LET error == errors[1]
                           error_number == dict_get(error.attrib, "Number", "Unknown")
                           error_message == IF error.text # "" THEN error.text
                                            ELSE "Unknown error"
                       IN  Raised("Exception", "Namecheap API Error " \o error_number
                                               \o ": " \o error_message)
                  ELSE Raised("Exception", "Unknown Namecheap API Error")
             ELSE Returned(root)

\* what _make_request does once requests.post has been given the request and
\* the transport has answered a_reply: raise, or return the root element
make_request(a_reply) ==
    IF a_reply.kind = "ConnectionError"
    THEN Raised("ConnectionError", "requests.post failed")
    ELSE IF a_reply.kind = "malformed"
    THEN Raised("ParseError", "ET.fromstring failed")
    ELSE LET root == a_reply.root
             status == dict_get(root.attrib, "Status", PyNone)
             errors == findall(root, NC, "Error")
         IN  IF status = "ERROR"
             THEN IF Len(errors) > 0
                  THEN LET error == errors[1]
                           error_number == dict_get(error.attrib, "Number", "Unknown")
                           error_message == IF error.text # "" THEN error.text
                                            ELSE "Unknown error"
                       IN  Raised("Exception", "Namecheap API Error " \o error_number
                                               \o ": " \o error_message)
                  ELSE Raised("Exception", "Unknown Namecheap API Error")
             ELSE Returned(root)

\* an operation that raised before building a request
FailedLocally(exception) == [requests |-> <<>>, result |-> exception]

\* mutant: a request that failed is posted a second time
Requested_retried(request, outcome) ==
    [requests |-> IF outcome.raised THEN <<request, request>> ELSE <<request>>,
     result |-> outcome]

\* an operation that posted `request`, with what came of it: what
\* _make_request raised, or what the parse step made of the root it returned
Requested(request, outcome) == [requests |-> <<request>>, result |-> outcome]

\* SLD and TLD as request parameters
sld_tld_params(parts) == [SLD |-> Str(parts.sld), TLD |-> Str(parts.tld)]


(***************************************************************************)
(* The response parsers and the DNS operations of the client.  Each        *)
(* operation takes the client, its arguments and the transport's answer,   *)
(* and gives the requests it made and what it returned or raised.          *)
(***************************************************************************)
\* Namecheap._parse_host_records: one dict per nc:host below root
host_data(host) ==
    [HostId |-> dict_get(host.attrib, "HostId", ""),
     Name |-> dict_get(host.attrib, "Name", ""),
     Type |-> dict_get(host.attrib, "Type", ""),
     Address |-> dict_get(host.attrib, "Address", ""),
     MXPref |-> dict_get(host.attrib, "MXPref", ""),
     TTL |-> dict_get(host.attrib, "TTL", "")]

\* mutant: a host element equal to the one before it is skipped
parse_host_records_dedup(root) ==
    LET host_elements == findall(root, NC, "host")
        kept == {i \in 1..Len(host_elements) :
                    i = 1 \/ host_elements[i] # host_elements[i - 1]}
        nth(k) == CHOOSE i \in kept : Cardinality({j \in kept : j <= i}) = k
    IN  [k \in 1..Cardinality(kept) |-> host_data(host_elements[nth(k)])]

parse_host_records(root) ==
    LET host_elements == findall(root, NC, "host")
    IN  [i \in 1..Len(host_elements) |-> host_data(host_elements[i])]

\* Namecheap._parse_email_forwarding
forward_data(forward) ==
    [MailBox |-> dict_get(forward.attrib, "MailBox", ""),
     ForwardTo |-> dict_get(forward.attrib, "ForwardTo", "")]

parse_email_forwarding(root) ==
    LET forward_elements == findall(root, NC, "forward")
    IN  [i \in 1..Len(forward_elements) |-> forward_data(forward_elements[i])]

\* the parse step shared by set_default and set_custom
parse_updated(root, tag) ==
    LET found == find(root, NC, tag)
    IN  IF IsNotNone(found)
        THEN [Domain |-> dict_get(found[1].attrib, "Domain", ""),
              Updated |-> attr_is_true(found[1], "Updated")]
        ELSE [Updated |-> FALSE]

set_default(self, domain_name, a_reply) ==
    LET parts == extract_domain_parts(domain_name)
    IN  IF parts.raised THEN FailedLocally(parts)
        ELSE LET made == make_request(a_reply)
             IN  Requested(Request(self, "namecheap.domains.dns.setDefault",
                     sld_tld_params(parts.value)),
                     IF made.raised THEN made
                     ELSE Returned(parse_updated(made.value, "DomainDNSSetDefaultResult")))

\* the most nameservers set_custom accepts
MaxNameservers == 12

RECURSIVE join_strs(_, _)
\* sep.join(strs) for a list of strings
join_strs(sep, strs) ==
    IF Len(strs) = 0 THEN ""
    ELSE IF Len(strs) = 1 THEN strs[1]
    ELSE strs[1] \o sep \o join_strs(sep, Tail(strs))

\* mutant: the limit is checked with >= instead of >
set_custom_off_by_one(self, domain_name, nameservers, a_reply) ==
    LET parts == extract_domain_parts(domain_name)
    IN  IF parts.raised THEN FailedLocally(parts)
        ELSE IF Len(nameservers) >= MaxNameservers
        THEN FailedLocally(Raised("ValueError", "Maximum of 12 nameservers allowed"))
        ELSE LET made == make_request(a_reply)
             IN  Requested(Request(self, "namecheap.domains.dns.setCustom",
                     dict_merge(sld_tld_params(parts.value), [Nameservers |-> join_strs(",", nameservers)])),
                     IF made.raised THEN made
                     ELSE Returned(parse_updated(made.value, "DomainDNSSetCustomResult")))

set_custom(self, domain_name, nameservers, a_reply) ==
    LET parts == extract_domain_parts(domain_name)
    IN  IF parts.raised THEN FailedLocally(parts)
        ELSE IF Len(nameservers) > MaxNameservers
        THEN FailedLocally(Raised("ValueError", "Maximum of 12 nameservers allowed"))
        ELSE LET made == make_request(a_reply)
             IN  Requested(Request(self, "namecheap.domains.dns.setCustom",
                     dict_merge(sld_tld_params(parts.value), [Nameservers |-> join_strs(",", nameservers)])),
                     IF made.raised THEN made
                     ELSE Returned(parse_updated(made.value, "DomainDNSSetCustomResult")))

\* mutant: the text of every element, empty or not
texts_of_every(elements) == [i \in 1..Len(elements) |-> elements[i].text]

\* [ns.text for ns in elements if ns.text]
texts_of(elements) ==
    LET with_text == SelectSeq(elements, LAMBDA ns : ns.text # "")
    IN  [i \in 1..Len(with_text) |-> with_text[i].text]

parse_dns_list(root) ==
    LET found == find(root, NC, "DomainDNSGetListResult")
    IN  IF IsNotNone(found)
        THEN [Domain |-> dict_get(found[1].attrib, "Domain", ""),
              IsUsingOurDNS |-> attr_is_true(found[1], "IsUsingOurDNS"),
              Nameservers |-> texts_of(findall(found[1], NC, "Nameserver"))]
        ELSE [Nameservers |-> <<>>]

get_dns_list(self, domain_name, a_reply) ==
    LET parts == extract_domain_parts(domain_name)
    IN  IF parts.raised THEN FailedLocally(parts)
        ELSE LET made == make_request(a_reply)
             IN  Requested(Request(self, "namecheap.domains.dns.getList",
                     sld_tld_params(parts.value)),
                     IF made.raised THEN made
                     ELSE Returned(parse_dns_list(made.value)))

parse_get_hosts(root) ==
    LET found == find(root, NC, "DomainDNSGetHostsResult")
    IN  IF IsNotNone(found)
        THEN [Domain |-> dict_get(found[1].attrib, "Domain", ""),
              IsUsingOurDNS |-> attr_is_true(found[1], "IsUsingOurDNS"),
              Hosts |-> parse_host_records(found[1])]
        ELSE [Hosts |-> <<>>]

get_hosts(self, domain_name, a_reply) ==
    LET parts == extract_domain_parts(domain_name)
    IN  IF parts.raised THEN FailedLocally(parts)
        ELSE LET made == make_request(a_reply)
             IN  Requested(Request(self, "namecheap.domains.dns.getHosts",
                     sld_tld_params(parts.value)),
                     IF made.raised THEN made
                     ELSE Returned(parse_get_hosts(made.value)))

parse_get_email_forwarding(root) ==
    LET found == find(root, NC, "DomainDNSGetEmailForwardingResult")
    IN  IF IsNotNone(found)
        THEN [Domain |-> dict_get(found[1].attrib, "Domain", ""),
              EmailForwarding |-> parse_email_forwarding(found[1])]
        ELSE [EmailForwarding |-> <<>>]

get_email_forwarding(self, domain_name, a_reply) ==
    LET made == make_request(a_reply)
             IN  Requested(Request(self, "namecheap.domains.dns.getEmailForwarding",
                     [DomainName |-> Str(domain_name)]),
                     IF made.raised THEN made
                     ELSE Returned(parse_get_email_forwarding(made.value)))

\* mutant: the suffix is the 0-based position of enumerate
indexed_from_zero(name, position) == name \o ToString(position - 1)

\* f'{name}{i+1}' for the 0-based position i+1-1 of enumerate
indexed(name, position) == name \o ToString(position)

RECURSIVE forward_params(_, _, _)
\* the loop over enumerate(forwards), from list position `position` on
forward_params(params, forwards, position) ==
    IF position > Len(forwards) THEN params
    ELSE forward_params(
             dict_merge(params,
                        (indexed("MailBox", position) :> forwards[position].mailbox)
                        @@ (indexed("ForwardTo", position) :> forwards[position].forward_to)),
             forwards, position + 1)

parse_is_success(root, tag) ==
    LET found == find(root, NC, tag)
    IN  IF IsNotNone(found)
        THEN [Domain |-> dict_get(found[1].attrib, "Domain", ""),
              IsSuccess |-> attr_is_true(found[1], "IsSuccess")]
        ELSE [IsSuccess |-> FALSE]

\* forwards are EmailForward objects, or the plain dicts the tool layer
\* passes on: reading .mailbox of a dict raises AttributeError
set_email_forwarding(self, domain_name, forwards, a_reply) ==
    IF \E i \in 1..Len(forwards) : forwards[i].class = "dict"
    THEN FailedLocally(Raised("AttributeError", "'dict' object has no attribute 'mailbox'"))
    ELSE LET made == make_request(a_reply)
             IN  Requested(Request(self, "namecheap.domains.dns.setEmailForwarding",
                     forward_params([DomainName |-> Str(domain_name)], forwards, 1)),
                     IF made.raised THEN made
                     ELSE Returned(parse_is_success(made.value, "DomainDNSSetEmailForwardingResult")))

\* the keys set_hosts reads from one host dict
HostKeysRead(host) ==
    IF "Type" \in DOMAIN host /\ host["Type"] = "MX"
    THEN {"Name", "Type", "Address", "MXPref", "TTL"}
    ELSE {"Name", "Type", "Address", "TTL"}

RECURSIVE host_params(_, _, _)
\* the loop over enumerate(hosts), from list position `position` on
host_params(params, hosts, position) ==
    IF position > Len(hosts) THEN params
    ELSE LET host == hosts[position]
             basic == (indexed("HostName", position) :> host["Name"])
                      @@ (indexed("RecordType", position) :> host["Type"])
                      @@ (indexed("Address", position) :> host["Address"])
                      @@ (indexed("TTL", position) :> host["TTL"])
             mx == IF host["Type"] = "MX"
                   THEN (indexed("MXPref", position) :> host["MXPref"])
                        @@ ("EmailType" :> "MX")
                   ELSE EmptyDict
         IN  host_params(dict_merge(dict_merge(params, basic), mx), hosts, position + 1)

parse_set_hosts(root) ==
    LET found == find(root, NC, "DomainDNSSetHostsResult")
    IN  IF IsNotNone(found)
        THEN [Domain |-> dict_get(found[1].attrib, "Domain", ""),
              IsSuccess |-> attr_is_true(found[1], "IsSuccess"),
              Hosts |-> IF Len(findall(found[1], NoNS, "host")) > 0
                        THEN parse_host_records(found[1]) ELSE <<>>]
        ELSE [IsSuccess |-> FALSE, Hosts |-> <<>>]

set_hosts(self, domain_name, hosts, a_reply) ==
    LET parts == extract_domain_parts(domain_name)
    IN  IF parts.raised THEN FailedLocally(parts)
        ELSE IF \E i \in 1..Len(hosts) : ~(HostKeysRead(hosts[i]) \subseteq DOMAIN hosts[i])
        THEN FailedLocally(Raised("KeyError", "a key of a host dict"))
        ELSE LET made == make_request(a_reply)
             IN  Requested(Request(self, "namecheap.domains.dns.setHosts",
                     host_params(sld_tld_params(parts.value), hosts, 1)),
                     IF made.raised THEN made
                     ELSE Returned(parse_set_hosts(made.value)))


(***************************************************************************)
(* The domain operations of the client.                                    *)
(***************************************************************************)
\* the largest number an attribute of the model spells
MaxAttrInt == 100

\* whether int(s) succeeds, and its value, for the attribute values of the model
IsIntText(text) == \E n \in 0..MaxAttrInt : ToString(n) = text
py_int(text) == CHOOSE n \in 0..MaxAttrInt : ToString(n) = text

\* mutant: the first argument, whatever the second
py_min_first(a, b) == a

\* min(a, b)
py_min(a, b) == IF a < b THEN a ELSE b

\* `if value:` for an optional string argument
Truthy(value) == value # PyNone /\ value # ""

\* the largest PageSize get_domains sends
MaxPageSize == 100

domain_data(domain) ==
    [ID |-> dict_get(domain.attrib, "ID", ""),
     Name |-> dict_get(domain.attrib, "Name", ""),
     User |-> dict_get(domain.attrib, "User", ""),
     Created |-> dict_get(domain.attrib, "Created", ""),
     Expires |-> dict_get(domain.attrib, "Expires", ""),
     IsExpired |-> attr_is_true(domain, "IsExpired"),
     IsLocked |-> attr_is_true(domain, "IsLocked"),
     AutoRenew |-> attr_is_true(domain, "AutoRenew"),
     WhoisGuard |-> dict_get(domain.attrib, "WhoisGuard", ""),
     IsPremium |-> attr_is_true(domain, "IsPremium"),
     IsOurDNS |-> attr_is_true(domain, "IsOurDNS")]

PagingAttrs == {"TotalItems", "CurrentPage", "PageSize", "TotalPages"}

parse_get_domains(root) ==
    LET found == find_path(root, NC, "CommandResponse", "DomainGetListResult")
    IN  IF IsNotNone(found)
        THEN LET domain_elements == findall(found[1], NC, "Domain")
                 domains == [i \in 1..Len(domain_elements) |->
                                domain_data(domain_elements[i])]
                 paging == find(found[1], NC, "Paging")
             IN  IF IsNotNone(paging)
                 THEN IF \A a \in PagingAttrs : IsIntText(dict_get(paging[1].attrib, a, "0"))
                      THEN Returned([Domains |-> domains,
                                     Paging |-> [a \in PagingAttrs |->
                                         py_int(dict_get(paging[1].attrib, a, "0"))]])
                      ELSE Raised("ValueError", "invalid literal for int()")
                 ELSE Returned([Domains |-> domains, Paging |-> EmptyDict])
        ELSE Returned([Domains |-> <<>>, Paging |-> EmptyDict])

get_domains(self, page_size, page, sort_by, search_term, list_type, a_reply) ==
    LET params == [Page |-> ToString(page),
                   PageSize |-> ToString(py_min(page_size, MaxPageSize))]
        sort_param == IF Truthy(sort_by) THEN [SortBy |-> sort_by] ELSE EmptyDict
        search_param == IF Truthy(search_term) THEN [SearchTerm |-> search_term]
                        ELSE EmptyDict
        list_param == IF Truthy(list_type) THEN [ListType |-> list_type] ELSE EmptyDict
    IN  LET made == make_request(a_reply)
             IN  Requested(Request(self, "namecheap.domains.getList",
                     dict_merge(dict_merge(dict_merge(params, sort_param), search_param), list_param)),
                     IF made.raised THEN made
                     ELSE parse_get_domains(made.value))

\* get_attr(el, attr, default) of get_domain_info, for an element that is there
get_attr(el, attr, default) == dict_get(el.attrib, attr, default)

\* get_attr(...,'false').lower() == 'true'
get_attr_is_true(el, attr) == lower(get_attr(el, attr, "false")) = "true"

\* .text of the element found, '' when none was found
text_or_empty(found) == IF IsNotNone(found) THEN found[1].text ELSE ""

whois_guard_info(domain_result) ==
    LET wg_enabled == lower(dict_get(domain_result.attrib, "WhoisGuard", ""))
        wg_info == find(domain_result, NC, "Whoisguard")
    IN  IF (wg_enabled = "true" \/ wg_enabled = "enabled") /\ IsNotNone(wg_info)
        THEN [Enabled |-> TRUE,
              ID |-> get_attr(wg_info[1], "ID", ""),
              ExpiredDate |-> get_attr(wg_info[1], "ExpiredDate", ""),
              EmailDetails |->
                [WhoisGuardEmail |-> get_attr(wg_info[1], "WhoisGuardEmail", ""),
                 ForwardedTo |-> get_attr(wg_info[1], "ForwardedTo", ""),
                 LastAutoEmailChangeDate |->
                     get_attr(wg_info[1], "LastAutoEmailChangeDate", ""),
                 AutoEmailChangeFrequencyDays |->
                     get_attr(wg_info[1], "AutoEmailChangeFrequencyDays", "")]]
        ELSE [Enabled |-> FALSE]

dns_details_info(domain_result) ==
    LET nameservers == texts_of(findall_path(domain_result, NC, "DNSDetails", "Nameserver"))
        dns_details == find(domain_result, NC, "DNSDetails")
    IN  IF IsNotNone(dns_details)
        THEN [ProviderType |-> get_attr(dns_details[1], "ProviderType", ""),
              IsUsingOurDNS |-> get_attr_is_true(dns_details[1], "IsUsingOurDNS"),
              IsPremiumDNS |-> get_attr_is_true(dns_details[1], "IsPremiumDNS"),
              Nameservers |-> nameservers]
        ELSE [ProviderType |-> "", IsUsingOurDNS |-> FALSE, IsPremiumDNS |-> FALSE,
              Nameservers |-> nameservers]

parse_get_domain_info(root) ==
    LET found == find_path(root, NC, "CommandResponse", "DomainGetInfoResult")
    IN  IF IsNotNone(found)
        THEN LET domain_result == found[1]
                 domain_details == find(domain_result, NC, "DomainDetails")
             IN  [ID |-> get_attr(domain_result, "ID", ""),
                  DomainName |-> get_attr(domain_result, "DomainName", ""),
                  OwnerName |-> get_attr(domain_result, "OwnerName", ""),
                  IsOwner |-> get_attr_is_true(domain_result, "IsOwner"),
                  IsPremium |-> get_attr_is_true(domain_result, "IsPremium"),
                  IsOurDNS |-> get_attr_is_true(domain_result, "IsOurDNS"),
                  IsPremiumDNS |-> get_attr_is_true(domain_result, "IsPremiumDNS"),
                  IsPremiumDNSRegistration |->
                      get_attr_is_true(domain_result, "IsPremiumDNSRegistration"),
                  IsExpired |-> get_attr_is_true(domain_result, "IsExpired"),
                  IsLocked |-> lower(get_attr(domain_result, "Status", "")) = "locked",
                  AutoRenew |-> get_attr_is_true(domain_result, "AutoRenew"),
                  WhoisGuard |-> get_attr(domain_result, "WhoisGuard", ""),
                  IsPremiumDomain |-> get_attr_is_true(domain_result, "IsPremiumDomain"),
                  CreatedDate |-> IF IsNotNone(domain_details)
                                  THEN text_or_empty(find_child(domain_details[1], NC,
                                                                "CreatedDate"))
                                  ELSE "",
                  ExpiredDate |-> IF IsNotNone(domain_details)
                                  THEN text_or_empty(find_child(domain_details[1], NC,
                                                                "ExpiredDate"))
                                  ELSE "",
                  UpdatedDate |-> "",
                  DNSDetails |-> dns_details_info(domain_result),
                  WhoisGuardInfo |-> whois_guard_info(domain_result)]
        ELSE EmptyDict

get_domain_info(self, domain_name, a_reply) ==
    LET parts == extract_domain_parts(domain_name)
    IN  IF parts.raised THEN FailedLocally(parts)
        ELSE LET made == make_request(a_reply)
             IN  Requested(Request(self, "namecheap.domains.getInfo",
                     [DomainName |-> Str(domain_name)]),
                     IF made.raised THEN made
                     ELSE Returned(parse_get_domain_info(made.value)))

check_result_info(domain_result) ==
    LET is_premium == attr_is_true(domain_result, "IsPremiumName")
        premium_reg_price == dict_get(domain_result.attrib, "PremiumRegistrationPrice", "")
        premium_renew_price == dict_get(domain_result.attrib, "PremiumRenewalPrice", "")
        premium_restore_price == dict_get(domain_result.attrib, "PremiumRestorePrice", "")
        premium_transfer_price == dict_get(domain_result.attrib, "PremiumTransferPrice", "")
        domain_info ==
            [Domain |-> dict_get(domain_result.attrib, "Domain", ""),
             Available |-> attr_is_true(domain_result, "Available"),
             ErrorNo |-> dict_get(domain_result.attrib, "ErrorNo", "0"),
             Description |-> dict_get(domain_result.attrib, "Description", ""),
             IsPremium |-> is_premium,
             Prices |->
                [Registration |-> IF is_premium THEN premium_reg_price ELSE PyNone,
                 Renewal |-> IF is_premium THEN premium_renew_price ELSE PyNone,
                 Restore |-> IF is_premium THEN premium_restore_price ELSE PyNone,
                 Transfer |-> IF is_premium THEN premium_transfer_price ELSE PyNone,
                 IcannFee |-> dict_get(domain_result.attrib, "IcannFee", ""),
                 EapFee |-> dict_get(domain_result.attrib, "EapFee", "")]]
    IN  IF is_premium /\ premium_reg_price # ""
        THEN dict_merge(domain_info,
                        [PremiumPricing |-> [Registration |-> premium_reg_price,
                                             Renewal |-> premium_renew_price,
                                             Restore |-> premium_restore_price,
                                             Transfer |-> premium_transfer_price]])
        ELSE domain_info

suggestion_info(sug) ==
    LET sug_available == attr_is_true(sug, "Available")
        suggestion == [Domain |-> dict_get(sug.attrib, "Name", ""),
                       Available |-> sug_available]
    IN  IF sug_available
        THEN dict_merge(suggestion,
                 [Price |-> dict_get(sug.attrib, "RegistrationPrice", ""),
                  PromoPrice |-> dict_get(sug.attrib, "PromoRegistrationPrice", ""),
                  IsPremium |-> attr_is_true(sug, "IsPremium")])
        ELSE suggestion

\* 'Suggestions' holds the list, or None when the list is empty: here a
\* record of whether it is None and the list
parse_check(root, suggestions) ==
    LET command_response == find(root, NC, "CommandResponse")
    IN  IF IsNotNone(command_response)
        THEN LET result_elements == findall(command_response[1], NC, "DomainCheckResult")
                 domain_results == [i \in 1..Len(result_elements) |->
                                       check_result_info(result_elements[i])]
                 suggestions_el == find_path(command_response[1], NC,
                                             "DomainCheckData", "DomainCheckResults")
                 sug_elements == IF IsNotNone(suggestions_el)
                                 THEN findall(suggestions_el[1], NC, "DomainSuggestion")
                                 ELSE <<>>
                 suggestions_list == [i \in 1..Len(sug_elements) |->
                                         suggestion_info(sug_elements[i])]
             IN  IF suggestions
                 THEN [Results |-> domain_results,
                       Suggestions |-> [is_none |-> Len(suggestions_list) = 0,
                                        list |-> suggestions_list]]
                 ELSE [Results |-> domain_results]
        ELSE [Results |-> <<>>]

\* domains is a str (class "str", one name) or a list of names
check_domains_availability(self, domains, suggestions, a_reply) ==
    LET names == IF domains.class = "str" THEN <<domains.name>> ELSE domains.names
        domains_str == join_strs(",", [i \in 1..Len(names) |-> Str(names[i])])
        check_type == IF suggestions THEN [CheckType |-> "REGISTER"] ELSE EmptyDict
    IN  LET made == make_request(a_reply)
             IN  Requested(Request(self, "namecheap.domains.check",
                     dict_merge([DomainList |-> domains_str], check_type)),
                     IF made.raised THEN made
                     ELSE Returned(parse_check(made.value, suggestions)))


(***************************************************************************)
(* The answers of the transport: a connection failure, a body that is not  *)
(* XML, or a response document.                                            *)
(***************************************************************************)
ErrorElems ==
    {Element(ns, "Error", c.attrib, c.text, <<>>) :
        ns \in {NC, NoNS},
        c \in {[attrib |-> [Number |-> "2019166"], text |-> "Domain not found"],
               [attrib |-> [Number |-> "1011102"], text |-> "Parameter APIKey is missing"],
               [attrib |-> EmptyDict, text |-> ""]}}

ErrorSeqs == SeqsUpTo(ErrorElems, MaxErrors)

StatusAttribs == {[Status |-> "OK"], [Status |-> "ERROR"], EmptyDict}

\* <ApiResponse Status=...><Errors>...</Errors><CommandResponse>...</CommandResponse>
ApiResponse(attrib, errors, body) ==
    Element(NC, "ApiResponse", attrib, "",
            <<Element(NC, "Errors", EmptyDict, "", errors),
              Element(NC, "CommandResponse", EmptyDict, "", body)>>)

\* the documents whose CommandResponse holds one of `bodies`, the ERROR
\* documents with every sequence of error elements, and the documents with
\* no CommandResponse at all
Docs(bodies) ==
    {ApiResponse([Status |-> "ERROR"], errors, <<>>) : errors \in ErrorSeqs}
    \cup {ApiResponse(a, errors, b) :
            a \in StatusAttribs,
            errors \in {<<>>, <<Element(NC, "Error", [Number |-> "2019166"],
                                        "Domain not found", <<>>)>>},
            b \in bodies \cup {<<>>}}
    \cup {Element(NC, "ApiResponse", a, "", <<>>) : a \in StatusAttribs}

Replies(bodies) ==
    {[kind |-> "doc", root |-> d] : d \in Docs(bodies)}
    \cup {[kind |-> "ConnectionError"], [kind |-> "malformed"]}

\* the value of reply when no request was made
NoReply == [kind |-> "none"]

\* one result element in or out of the namespace, as a CommandResponse body
ResultBodies(tag, attribs, childrens) ==
    {<<Element(ns, tag, a, "", c)>> : ns \in {NC, NoNS}, a \in attribs, c \in childrens}

FlagAttribs(flag) ==
    {EmptyDict} \cup {[k \in {"Domain", flag} |-> IF k = flag THEN v ELSE "a.b"] :
                        v \in {"true", "True", "false"}}

\* the result element of an operation that reports one flag
FlagBodies(tag, flag) == ResultBodies(tag, FlagAttribs(flag), {<<>>})

UsingOurDNSAttribs == {EmptyDict, [Domain |-> "a.b", IsUsingOurDNS |-> "true"]}

NameserverElems ==
    {Element(NC, "Nameserver", EmptyDict, "dns1.registrar-servers.com", <<>>),
     Element(NC, "Nameserver", EmptyDict, "dns2.registrar-servers.com", <<>>),
     Element(NC, "Nameserver", EmptyDict, "", <<>>),
     Element(NoNS, "Nameserver", EmptyDict, "ns.example.net", <<>>)}

GetListBodies ==
    ResultBodies("DomainDNSGetListResult", UsingOurDNSAttribs,
                 SeqsUpTo(NameserverElems, MaxElems))

HostAttribs ==
    {[HostId |-> "12", Name |-> "@", Type |-> "A", Address |-> "192.0.2.10",
      TTL |-> "1800"],
     [HostId |-> "14", Name |-> "@", Type |-> "MX", Address |-> "mail.a.b",
      MXPref |-> "10", TTL |-> "1800"],
     [Name |-> "www"]}

HostElems ==
    {Element(NC, "host", a, "", <<>>) : a \in HostAttribs}
    \cup {Element(NoNS, "host", [Name |-> "www"], "", <<>>)}

GetHostsBodies ==
    ResultBodies("DomainDNSGetHostsResult", UsingOurDNSAttribs,
                 SeqsUpTo(HostElems, MaxHostElems))

SetHostsBodies ==
    ResultBodies("DomainDNSSetHostsResult", {EmptyDict, [Domain |-> "a.b", IsSuccess |-> "true"]},
                 SeqsUpTo(HostElems, MaxElems))

ForwardElems ==
    {Element(NC, "forward", [MailBox |-> "info", ForwardTo |-> "me@example.org"], "", <<>>),
     Element(NC, "forward", [MailBox |-> "sales"], "", <<>>),
     Element(NoNS, "forward", [MailBox |-> "info"], "", <<>>)}

GetEmailForwardingBodies ==
    ResultBodies("DomainDNSGetEmailForwardingResult", {EmptyDict, [Domain |-> "a.b"]},
                 SeqsUpTo(ForwardElems, MaxElems))

DomainElems ==
    {Element(NC, "Domain", [ID |-> "127", Name |-> "a.b", IsLocked |-> "true"], "", <<>>),
     Element(NC, "Domain", EmptyDict, "", <<>>)}

PagingElems ==
    {Element(NC, "Paging", a, "", <<>>) :
        a \in {[TotalItems |-> "2", CurrentPage |-> "1", PageSize |-> "20"],
               [TotalItems |-> "many"]}}

\* Paging inside the result element (where get_domains looks for it), or none
GetDomainsBodies ==
    ResultBodies("DomainGetListResult", {EmptyDict},
                 {ds \o p : ds \in SeqsUpTo(DomainElems, MaxElems),
                            p \in {<<>>} \cup {<<e>> : e \in PagingElems}})

DomainInfoAttribs ==
    {EmptyDict,
     [Status |-> "Ok", ID |-> "57579", DomainName |-> "a.b", OwnerName |-> "user",
      IsOwner |-> "true", IsPremium |-> "false", WhoisGuard |-> "ENABLED"],
     [Status |-> "Locked", DomainName |-> "a.b", IsOwner |-> "True",
      WhoisGuard |-> "NOTPRESENT"]}

DomainDetailsElems ==
    {Element(NC, "DomainDetails", EmptyDict, "",
             <<Element(NC, "CreatedDate", EmptyDict, "11/04/2014", <<>>),
               Element(NC, "ExpiredDate", EmptyDict, "11/04/2015", <<>>)>>)}

WhoisguardElems ==
    {Element(NC, "Whoisguard", [Enabled |-> "True", ID |-> "53536"], "", <<>>)}

DNSDetailsElems ==
    {Element(NC, "DNSDetails", [ProviderType |-> "FREE", IsUsingOurDNS |-> "true"], "", c) :
        c \in SeqsUpTo(NameserverElems, MaxElems)}

\* zero or one element of the set, as a sequence
Optional(elems) == {<<>>} \cup {<<e>> : e \in elems}

GetInfoBodies ==
    ResultBodies("DomainGetInfoResult", DomainInfoAttribs,
                 {dd \o wg \o dns : dd \in Optional(DomainDetailsElems),
                                    wg \in Optional(WhoisguardElems),
                                    dns \in Optional(DNSDetailsElems)})

CheckResultElems ==
    {Element(NC, "DomainCheckResult", a, "", <<>>) :
        a \in {[Domain |-> "a.b", Available |-> "true"],
               [Domain |-> "a.b", Available |-> "false", IsPremiumName |-> "true",
                PremiumRegistrationPrice |-> "13000.0"],
               EmptyDict}}

SuggestionElems ==
    {Element(NC, "DomainSuggestion", a, "", <<>>) :
        a \in {[Name |-> "a.c", Available |-> "true", RegistrationPrice |-> "9.0"],
               [Name |-> "a.d", Available |-> "false"]}}

CheckDataElems ==
    {Element(NC, "DomainCheckData", EmptyDict, "",
             <<Element(NC, "DomainCheckResults", EmptyDict, "", sugs)>>) :
        sugs \in SeqsUpTo(SuggestionElems, MaxElems)}

CheckBodies ==
    {rs \o cd : rs \in SeqsUpTo(CheckResultElems, MaxElems), cd \in Optional(CheckDataElems)}

(***************************************************************************)
(* The arguments of the calls.                                             *)
(***************************************************************************)
ClientDomains ==
    {<<>>, <<"a", "b">>, <<"a", ".", "b">>, <<"a", ".", "b", ".", "c">>}

NameserverLists ==
    {[i \in 1..n |-> "ns" \o ToString(i) \o ".example.net"] : n \in 0..MaxNsListLen}

\* host dicts of a caller: an A record, an MX record, and the keys of
\* models.HostRecord.to_dict, which are not the keys set_hosts reads
HostDicts ==
    {[Name |-> "www", Type |-> "A", Address |-> "192.0.2.20", TTL |-> "300"],
     [Name |-> "@", Type |-> "MX", Address |-> "mx.example.org", MXPref |-> "5",
      TTL |-> "300"],
     [HostName |-> "www", RecordType |-> "A", Address |-> "192.0.2.20", TTL |-> "300"]}

HostLists == SeqsUpTo(HostDicts, MaxListLen)

Forwards ==
    {[class |-> "EmailForward", mailbox |-> "info", forward_to |-> "me@example.org"],
     [class |-> "EmailForward", mailbox |-> "sales", forward_to |-> "we@example.org"],
     [class |-> "dict", mailbox |-> "info", forward_to |-> "me@example.org"]}

ForwardLists == SeqsUpTo(Forwards, MaxListLen)

PageSizes == {1, 20, 99, 100, 101, 250}
OptionalStrings(value) == {PyNone, "", value}

CheckArguments ==
    {[class |-> "str", name |-> d] : d \in ClientDomains}
    \cup {[class |-> "list", names |-> ds] :
            ds \in SeqsUpTo({<<"a", ".", "b">>, <<"a", "b">>}, MaxListLen)}


NoCall == [op |-> "none"]

ClientIdle ==
    /\ pc = "idle"
    /\ call = NoCall
    /\ sent = <<>>
    /\ reply = NoReply
    /\ result = NotCalled

SplitIdle ==
    /\ split_pc = "start"
    /\ split_in = <<>>
    /\ split_out = NotCalled

\* os.getenv(name, default)
os_getenv(environ, name, default) ==
    IF environ[name] = PyNone THEN default ELSE environ[name]

\* the environment after load_dotenv(), SANDBOX holding `value`, PyNone for unset
Environ(value) ==
    [API_KEY |-> "key", USERNAME |-> "user", CLIENT_IP |-> "192.0.2.1",
     SANDBOX |-> value]

\* main.py: namecheap = Namecheap(api_key=..., sandbox=...)
main_namecheap(environ) ==
    Namecheap_init(os_getenv(environ, "API_KEY", PyNone),
                   os_getenv(environ, "USERNAME", PyNone),
                   os_getenv(environ, "CLIENT_IP", PyNone),
                   lower(os_getenv(environ, "SANDBOX", "true")) = "true")

\* main.py has run with SANDBOX unset
MainIdle ==
    /\ env = Environ(PyNone)
    /\ client = namecheap

(***************************************************************************)
(* The registrar, as far as add_host meets it: the host records of the one *)
(* domain a.b of the account, read by getHosts and replaced as a whole by  *)
(* setHosts.                                                               *)
(***************************************************************************)
\* whether a request names the domain of the account, a.b
KnowsDomain(request) ==
    /\ request.params["SLD"] = "a"
    /\ request.params["TLD"] = "b"

\* the answer to getHosts: the records, numbered in order
RemoteGetHosts(records) ==
    [kind |-> "doc",
     root |-> ApiResponse([Status |-> "OK"], <<>>,
        <<Element(NC, "DomainDNSGetHostsResult",
                  [Domain |-> "a.b", IsUsingOurDNS |-> "true"], "",
                  [i \in 1..Len(records) |->
                      Element(NC, "host",
                              [HostId |-> ToString(i), Name |-> records[i].Name,
                               Type |-> records[i].Type, Address |-> records[i].Address,
                               MXPref |-> records[i].MXPref, TTL |-> records[i].TTL],
                              "", <<>>)])>>)]

\* the records a setHosts request spells: HostName1.., RecordType1.., ...,
\* MXPref 10 when the request gives none
RemoteSetHosts(params) ==
    LET count == Cardinality({i \in 1..Cardinality(DOMAIN params) :
                                 indexed("HostName", i) \in DOMAIN params})
    IN  [i \in 1..count |->
            [Name |-> params[indexed("HostName", i)],
             Type |-> params[indexed("RecordType", i)],
             Address |-> params[indexed("Address", i)],
             MXPref |-> dict_get(params, indexed("MXPref", i), "10"),
             TTL |-> params[indexed("TTL", i)]]]

RemoteSetHostsReply ==
    [kind |-> "doc",
     root |-> ApiResponse([Status |-> "OK"], <<>>,
        <<Element(NC, "DomainDNSSetHostsResult",
                  [Domain |-> "a.b", IsSuccess |-> "true"], "", <<>>)>>)]

RemoteErrorReply ==
    [kind |-> "doc",
     root |-> ApiResponse([Status |-> "ERROR"],
        <<Element(NC, "Error", [Number |-> "2019166"], "Domain not found", <<>>)>>,
        <<>>)]

\* how a request may fare: answered, refused with an ERROR response, lost
\* on the way (requests.post raises), or answered by a body that is not XML
Fates == {"answered", "refused", "lost", "garbled"}

\* whether the registrar carries the request out
Served(request, fate) == fate = "answered" /\ KnowsDomain(request)

\* the transport's answer to a request for domain_name that fared `fate`
Answer(domain_name, fate, served_reply) ==
    IF fate = "lost" THEN [kind |-> "ConnectionError"]
    ELSE IF fate = "garbled" THEN [kind |-> "malformed"]
    ELSE IF fate = "answered" /\ Str(domain_name) = "a.b" THEN served_reply
    ELSE RemoteErrorReply

(***************************************************************************)
(* main.add_host, in its two remote calls.                                 *)
(***************************************************************************)
Tasks == {"t1", "t2"}

AddHostDomains == {<<"a", ".", "b">>, <<"a", "b">>}

\* host dicts of add_host's callers, and the record of an external writer
HostA == [Name |-> "www", Type |-> "A", Address |-> "192.0.2.20", TTL |-> "300"]
HostMX ==
    [Name |-> "@", Type |-> "MX", Address |-> "mx.example.org", MXPref |-> "5",
     TTL |-> "300"]
HostToDict ==
    [HostName |-> "www", RecordType |-> "A", Address |-> "192.0.2.20", TTL |-> "300"]
ExternalRecord ==
    [Name |-> "ext", Type |-> "TXT", Address |-> "v=spf1 -all", MXPref |-> "10",
     TTL |-> "60"]
ExistingRecord ==
    [Name |-> "@", Type |-> "A", Address |-> "192.0.2.10", MXPref |-> "10",
     TTL |-> "1800"]

AddHostLists == {<<HostA>>, <<HostA, HostMX>>, <<HostToDict>>}

TaskIdle ==
    [pc |-> "idle", domain_name |-> <<>>, new |-> <<>>, hosts |-> <<>>,
     existing_hosts |-> <<>>, snapshot |-> <<>>, missed |-> {}, applied |-> FALSE,
     before |-> <<>>, after |-> <<>>, get_hosts |-> NotCalled,
     requests |-> <<>>, result |-> NotCalled]

AddHostIdle ==
    /\ remote = <<>>
    /\ writer = "nobody"
    /\ task = [t \in Tasks |-> TaskIdle]
    /\ started = 0
    /\ external = 0

AddHostInit ==
    /\ remote \in {<<>>, <<ExistingRecord>>}
    /\ writer = "nobody"
    /\ task = [t \in Tasks |-> TaskIdle]
    /\ started = 0
    /\ external = 0
    /\ ClientIdle
    /\ SplitIdle
    /\ MainIdle

\* mutant: the new records are put after the existing ones
extend_reversed(hosts, existing_hosts) == existing_hosts \o hosts

\* hosts.extend(existing_hosts)
extend(hosts, existing_hosts) == hosts \o existing_hosts

\* the tasks other than t that are between their get and their set note the
\* records a write brought that their own get did not show them
NoteWrite(tasks, t, records) ==
    [u \in Tasks |->
        IF u # t /\ tasks[u].pc = "got"
        THEN [tasks[u] EXCEPT !.missed = @ \cup (Range(records) \ Range(tasks[u].snapshot))]
        ELSE tasks[u]]

\* mutant: a get_hosts that raised is taken for a domain without records
AddHostGet_carries_on(t) ==
    /\ task[t].pc = "idle"
    /\ started < MaxCalls
    /\ \E d \in AddHostDomains, new \in AddHostLists, fate \in Fates :
          LET got == get_hosts(namecheap, d, Answer(d, fate, RemoteGetHosts(remote)))
              existing_hosts == IF got.result.raised THEN <<>>
                                ELSE got.result.value["Hosts"]
          IN  task' = [task EXCEPT ![t] =
                  [TaskIdle EXCEPT !.pc = "got", !.domain_name = d, !.new = new,
                                   !.existing_hosts = existing_hosts,
                                   !.hosts = extend(new, existing_hosts),
                                   !.snapshot = remote,
                                   !.get_hosts = got.result,
                                   !.requests = got.requests]]
    /\ started' = started + 1
    /\ UNCHANGED <<remote, writer, external, clientVars, splitVars, mainVars>>

\* add_host up to its get_hosts call: the call raises, or hosts is extended
\* by the records it returned
AddHostGet(t) ==
    /\ task[t].pc = "idle"
    /\ started < MaxCalls
    /\ \E d \in AddHostDomains, new \in AddHostLists, fate \in Fates :
          LET got == get_hosts(namecheap, d, Answer(d, fate, RemoteGetHosts(remote)))
          IN  task' = [task EXCEPT ![t] =
                  IF got.result.raised
                  THEN [TaskIdle EXCEPT !.pc = "done", !.domain_name = d, !.new = new,
                                        !.hosts = new, !.requests = got.requests,
                                        !.get_hosts = got.result,
                                        !.result = got.result]
                  ELSE [TaskIdle EXCEPT !.pc = "got", !.domain_name = d, !.new = new,
                                        !.existing_hosts = got.result.value["Hosts"],
                                        !.hosts = extend(new, got.result.value["Hosts"]),
                                        !.snapshot = remote,
                                        !.get_hosts = got.result,
                                        !.requests = got.requests]]
    /\ started' = started + 1
    /\ UNCHANGED <<remote, writer, external, clientVars, splitVars, mainVars>>

\* mutant: the set is made of the records the registrar holds now
AddHostSet_rereading(t) ==
    /\ task[t].pc = "got"
    /\ \E fate \in Fates :
          LET hosts == extend(task[t].new,
                              parse_get_hosts(RemoteGetHosts(remote).root)["Hosts"])
              out == set_hosts(namecheap, task[t].domain_name, hosts,
                               Answer(task[t].domain_name, fate, RemoteSetHostsReply))
              served == Len(out.requests) = 1 /\ Served(out.requests[1], fate)
              stored == IF served THEN RemoteSetHosts(out.requests[1].params) ELSE remote
          IN  /\ remote' = stored
              /\ writer' = IF served THEN t ELSE writer
              /\ task' = [NoteWrite(task, t, stored) EXCEPT ![t] =
                    [@ EXCEPT !.pc = "done", !.applied = served,
                              !.before = remote, !.after = stored,
                              !.requests = @ \o out.requests,
                              !.result = IF out.result.raised THEN out.result
                                         ELSE Returned([success |-> out.result.value,
                                                        message |-> "Host added successfully"])]]
    /\ UNCHANGED <<started, external, clientVars, splitVars, mainVars>>

\* add_host from its set_hosts call on: the call raises, or add_host returns
AddHostSet(t) ==
    /\ task[t].pc = "got"
    /\ \E fate \in Fates :
          LET out == set_hosts(namecheap, task[t].domain_name, task[t].hosts,
                               Answer(task[t].domain_name, fate, RemoteSetHostsReply))
              served == Len(out.requests) = 1 /\ Served(out.requests[1], fate)
              stored == IF served THEN RemoteSetHosts(out.requests[1].params) ELSE remote
          IN  /\ remote' = stored
              /\ writer' = IF served THEN t ELSE writer
              /\ task' = [NoteWrite(task, t, stored) EXCEPT ![t] =
                    [@ EXCEPT !.pc = "done", !.applied = served,
                              !.before = remote, !.after = stored,
                              !.requests = @ \o out.requests,
                              !.result = IF out.result.raised THEN out.result
                                         ELSE Returned([success |-> out.result.value,
                                                        message |-> "Host added successfully"])]]
    /\ UNCHANGED <<started, external, clientVars, splitVars, mainVars>>

\* the tool's caller has its answer; the next invocation starts afresh
AddHostReturn(t) ==
    /\ task[t].pc = "done"
    /\ task' = [task EXCEPT ![t] = TaskIdle]
    /\ UNCHANGED <<remote, writer, started, external, clientVars, splitVars, mainVars>>

\* another client of the account adds a record
ExternalAdd ==
    /\ external < MaxExternal
    /\ external' = external + 1
    /\ remote' = Append(remote, ExternalRecord)
    /\ writer' = "external"
    /\ task' = NoteWrite(task, "external", Append(remote, ExternalRecord))
    /\ UNCHANGED <<started, clientVars, splitVars, mainVars>>

AddHostNext ==
    \/ \E t \in Tasks : AddHostGet(t)
    \/ \E t \in Tasks : AddHostSet(t)
    \/ \E t \in Tasks : AddHostReturn(t)
    \/ ExternalAdd

SpecAddHost == AddHostInit /\ [][AddHostNext]_vars

(***************************************************************************)
(* Properties of add_host (SpecAddHost).                                   *)
(***************************************************************************)
\* the records the registrar holds once it was sent these host dicts
AsStored(hosts) ==
    [i \in 1..Len(hosts) |->
        [Name |-> hosts[i]["Name"], Type |-> hosts[i]["Type"],
         Address |-> hosts[i]["Address"],
         MXPref |-> IF hosts[i]["Type"] = "MX" THEN hosts[i]["MXPref"] ELSE "10",
         TTL |-> hosts[i]["TTL"]]]

CommandOf(request) == request.params["Command"]

\* C9: an add_host invocation sends getHosts first and setHosts second, at
\* most one of each and both when it returns; the two name the same domain,
\* and the list the setHosts request spells is the caller's new records
\* followed by the records get_hosts returned, in that order.
C9_GetThenSet ==
    \A t \in Tasks :
        LET requests == task[t].requests
        IN  /\ Len(requests) <= 2
            /\ Len(requests) >= 1 =>
                  CommandOf(requests[1]) = "namecheap.domains.dns.getHosts"
            /\ Len(requests) = 2 =>
                  /\ CommandOf(requests[2]) = "namecheap.domains.dns.setHosts"
                  /\ requests[2].params["SLD"] = requests[1].params["SLD"]
                  /\ requests[2].params["TLD"] = requests[1].params["TLD"]
                  /\ RemoteSetHosts(requests[2].params)
                        = AsStored(task[t].new) \o AsStored(task[t].existing_hosts)
            /\ task[t].pc = "got" => Len(requests) = 1
            /\ (task[t].pc = "done" /\ ~task[t].result.raised) => Len(requests) = 2

\* an invocation has returned after adding records to a domain that had some
C9_Witness ==
    \E t \in Tasks :
        /\ task[t].pc = "done"
        /\ ~task[t].result.raised
        /\ Len(task[t].requests) = 2
        /\ task[t].new # <<>>
        /\ task[t].existing_hosts # <<>>
        /\ AsStored(task[t].new) \o AsStored(task[t].existing_hosts)
              # AsStored(task[t].existing_hosts) \o AsStored(task[t].new)

\* C10: nothing guards the set of add_host against writes made since its
\* get: when the registrar carries the set out, every record another writer
\* stored in between, unless it is one of the caller's own new records, is
\* no longer held.
C10_InterveningChangeLost ==
    [][\A t \in Tasks :
          (task[t].pc = "got" /\ task'[t].pc = "done" /\ task'[t].applied) =>
              /\ remote' = AsStored(task[t].new) \o task[t].snapshot
              /\ \A r \in task[t].missed :
                    r \notin Range(AsStored(task[t].new)) => r \notin Range(remote')]_vars

\* a set has just been carried out, and a record stored by another writer
\* between this invocation's get and its set is gone
C10_Witness ==
    \E t \in Tasks :
        /\ task[t].pc = "done"
        /\ task[t].applied
        /\ writer = t
        /\ \E r \in task[t].missed : r \notin Range(remote)

\* t has added its records and then u, given the same domain and the same
\* records, has added them again, nobody else writing
AddedTwice(t, u) ==
    /\ external = 0
    /\ task[t].pc = "done" /\ task[t].applied
    /\ task[u].pc = "done" /\ task[u].applied
    /\ task[u].domain_name = task[t].domain_name
    /\ task[u].new = task[t].new
    /\ task[t].before = task[t].snapshot
    /\ task[u].snapshot = task[t].after
    /\ task[u].before = task[t].after

\* C18: with no other writer, a second add_host with the same domain and
\* the same new records leaves the registrar with the records the first one
\* left it with.
C18_AddHostIdempotent ==
    \A t, u \in Tasks :
        (t # u /\ AddedTwice(t, u)) => task[u].after = task[t].after

\* the get_hosts call of t's invocation raised
GetFailed(t) == task[t].get_hosts.raised

\* C19: when the get_hosts call of an add_host invocation raises, for a name
\* without a dot, an ERROR response, a failed post or a body that is not
\* XML, the invocation ends with that failure, no setHosts request is sent
\* on its behalf, and the step leaves the registrar's records as they were.
C19_NoSetAfterFailedGet ==
    /\ [](\A t \in Tasks :
            GetFailed(t) =>
                /\ task[t].pc = "done"
                /\ task[t].result = task[t].get_hosts
                /\ ~task[t].applied
                /\ \A i \in 1..Len(task[t].requests) :
                      CommandOf(task[t].requests[i]) = "namecheap.domains.dns.getHosts")
    /\ [][\A t \in Tasks :
            (task[t].pc = "idle" /\ GetFailed(t)') => remote' = remote]_vars

\* the registrar refused the getHosts request of an invocation, which ended
\* with the registrar's error and one request, the existing record in place
C19_Witness ==
    \E t \in Tasks :
        /\ GetFailed(t)
        /\ task[t].pc = "done"
        /\ task[t].result.exc = "Exception"
        /\ Len(task[t].requests) = 1
        /\ remote = <<ExistingRecord>>

(***************************************************************************)
(* Spec: one client operation at a time, with any arguments and any        *)
(* answer of the transport, then the return to the caller.                 *)
(***************************************************************************)
Init == ClientIdle /\ SplitIdle /\ AddHostIdle /\ MainIdle

\* the operation `the_call` ran to its end with outcome `out`
Finish(the_call, out, a_reply) ==
    /\ pc' = "returned"
    /\ call' = the_call
    /\ sent' = out.requests
    /\ reply' = IF Len(out.requests) = 0 THEN NoReply ELSE a_reply
    /\ result' = out.result
    /\ UNCHANGED <<splitVars, addHostVars, mainVars>>

SetDefault ==
    /\ pc = "idle"
    /\ \E d \in ClientDomains, r \in Replies(FlagBodies("DomainDNSSetDefaultResult", "Updated")) :
          Finish([op |-> "set_default", domain_name |-> d],
                 set_default(namecheap, d, r), r)

SetCustom ==
    /\ pc = "idle"
    /\ \E d \in ClientDomains, ns \in NameserverLists,
          r \in Replies(FlagBodies("DomainDNSSetCustomResult", "Updated")) :
          Finish([op |-> "set_custom", domain_name |-> d, nameservers |-> ns],
                 set_custom(namecheap, d, ns, r), r)

GetDnsList ==
    /\ pc = "idle"
    /\ \E d \in ClientDomains, r \in Replies(GetListBodies) :
          Finish([op |-> "get_dns_list", domain_name |-> d],
                 get_dns_list(namecheap, d, r), r)

GetHosts ==
    /\ pc = "idle"
    /\ \E d \in ClientDomains, r \in Replies(GetHostsBodies) :
          Finish([op |-> "get_hosts", domain_name |-> d],
                 get_hosts(namecheap, d, r), r)

GetEmailForwarding ==
    /\ pc = "idle"
    /\ \E d \in ClientDomains, r \in Replies(GetEmailForwardingBodies) :
          Finish([op |-> "get_email_forwarding", domain_name |-> d],
                 get_email_forwarding(namecheap, d, r), r)

SetEmailForwarding ==
    /\ pc = "idle"
    /\ \E d \in ClientDomains, fs \in ForwardLists,
          r \in Replies(FlagBodies("DomainDNSSetEmailForwardingResult", "IsSuccess")) :
          Finish([op |-> "set_email_forwarding", domain_name |-> d, forwards |-> fs],
                 set_email_forwarding(namecheap, d, fs, r), r)

SetHosts ==
    /\ pc = "idle"
    /\ \E d \in ClientDomains, hs \in HostLists, r \in Replies(SetHostsBodies) :
          Finish([op |-> "set_hosts", domain_name |-> d, hosts |-> hs],
                 set_hosts(namecheap, d, hs, r), r)

GetDomains ==
    /\ pc = "idle"
    /\ \E size \in PageSizes, sort \in OptionalStrings("NAME"),
          list \in OptionalStrings("ALL"), r \in Replies(GetDomainsBodies) :
          Finish([op |-> "get_domains", page_size |-> size, page |-> 1,
                  sort_by |-> sort, search_term |-> PyNone, list_type |-> list],
                 get_domains(namecheap, size, 1, sort, PyNone, list, r), r)

GetDomainInfo ==
    /\ pc = "idle"
    /\ \E d \in ClientDomains, r \in Replies(GetInfoBodies) :
          Finish([op |-> "get_domain_info", domain_name |-> d],
                 get_domain_info(namecheap, d, r), r)

CheckDomainsAvailability ==
    /\ pc = "idle"
    /\ \E ds \in CheckArguments, sug \in BOOLEAN, r \in Replies(CheckBodies) :
          Finish([op |-> "check_domains_availability", domains |-> ds,
                  suggestions |-> sug],
                 check_domains_availability(namecheap, ds, sug, r), r)

\* the caller takes the result; the client keeps nothing of the call
Return ==
    /\ pc = "returned"
    /\ pc' = "idle"
    /\ call' = NoCall
    /\ sent' = <<>>
    /\ reply' = NoReply
    /\ result' = NotCalled
    /\ UNCHANGED <<splitVars, addHostVars, mainVars>>

Next ==
    \/ SetDefault
    \/ SetCustom
    \/ GetDnsList
    \/ GetHosts
    \/ GetEmailForwarding
    \/ SetEmailForwarding
    \/ SetHosts
    \/ GetDomains
    \/ GetDomainInfo
    \/ CheckDomainsAvailability
    \/ Return


Spec == Init /\ [][Next]_vars


(***************************************************************************)
(* Properties of the client operations (Spec).                             *)
(***************************************************************************)
Called(op) == pc = "returned" /\ call.op = op

\* the operations that take one domain name
DomainOps ==
    {"set_default", "set_custom", "get_dns_list", "get_hosts", "set_hosts",
     "get_email_forwarding", "set_email_forwarding", "get_domain_info"}

\* a response document came back
GotDocument == pc = "returned" /\ reply.kind = "doc"

\* the Status attribute of the response's root, PyNone when it has none
ReplyStatus == dict_get(reply.root.attrib, "Status", PyNone)

\* the error elements of the response that are in the response namespace
ReplyErrors ==
    SelectSeq(DescendantsOf(reply.root.children),
              LAMBDA e : e.tag = "Error" /\ e.ns = NC)

RaisedValueError == result.raised /\ result.exc = "ValueError"

\* C3: set_custom with a valid domain and exactly 12 nameservers issues its
\* remote call (one setCustom request carrying the 12 names); with 13 or
\* more it raises ValueError and no request is made.
C3_NameserverLimit ==
    (Called("set_custom") /\ HasDot(call.domain_name)) =>
        /\ Len(call.nameservers) = 12 =>
              /\ Len(sent) = 1
              /\ sent[1].params["Command"] = "namecheap.domains.dns.setCustom"
              /\ sent[1].params["Nameservers"] = join_strs(",", call.nameservers)
              /\ reply # NoReply
        /\ Len(call.nameservers) >= 13 =>
              /\ Len(sent) = 0
              /\ RaisedValueError

\* set_custom with 13 nameservers was refused without a request
C3_Witness ==
    /\ Called("set_custom")
    /\ HasDot(call.domain_name)
    /\ Len(call.nameservers) = 13
    /\ Len(sent) = 0
    /\ RaisedValueError

\* C4: every operation that takes a domain name fails with ValueError, and
\* makes no request, when the name has no dot.
C4_NoDotFailsLocally ==
    (pc = "returned" /\ call.op \in DomainOps /\ ~HasDot(call.domain_name)) =>
        /\ Len(sent) = 0
        /\ RaisedValueError

\* C5: when the root's Status is ERROR and the response has an error
\* element in the response namespace, the operation raises, and the failure
\* carries the Number attribute and the text of the first such element in
\* document order.
C5_FirstErrorCarried ==
    (GotDocument /\ ReplyStatus = "ERROR" /\ Len(ReplyErrors) > 0) =>
        /\ result.raised
        /\ result.exc = "Exception"
        /\ LET error == ReplyErrors[1]
           IN  ("Number" \in DOMAIN error.attrib /\ error.text # "") =>
                  result.msg = "Namecheap API Error " \o error.attrib["Number"]
                               \o ": " \o error.text

\* an ERROR response with two error elements was reported by its first
C5_Witness ==
    /\ GotDocument
    /\ ReplyStatus = "ERROR"
    /\ Len(ReplyErrors) = 2
    /\ ReplyErrors[1].attrib = [Number |-> "2019166"]
    /\ ReplyErrors[2].attrib = [Number |-> "1011102"]
    /\ result.raised
    /\ result.msg = "Namecheap API Error 2019166: Domain not found"

\* C6: when the root's Status is ERROR and the response has no error
\* element in the response namespace, the operation raises the generic
\* failure, whose message names no code, and returns nothing.
C6_GenericFailure ==
    (GotDocument /\ ReplyStatus = "ERROR" /\ Len(ReplyErrors) = 0) =>
        /\ result.raised
        /\ result.exc = "Exception"
        /\ result.msg = "Unknown Namecheap API Error"

\* an ERROR response whose only error element is outside the namespace was
\* reported as the generic failure
C6_Witness ==
    /\ GotDocument
    /\ ReplyStatus = "ERROR"
    /\ Len(ReplyErrors) = 0
    /\ \E e \in Range(DescendantsOf(reply.root.children)) : e.tag = "Error"
    /\ result.raised
    /\ result.msg = "Unknown Namecheap API Error"

\* the element each operation's parse step looks for
ResultElement(op, root) ==
    CASE op = "set_default" -> find(root, NC, "DomainDNSSetDefaultResult")
      [] op = "set_custom" -> find(root, NC, "DomainDNSSetCustomResult")
      [] op = "get_dns_list" -> find(root, NC, "DomainDNSGetListResult")
      [] op = "get_hosts" -> find(root, NC, "DomainDNSGetHostsResult")
      [] op = "get_email_forwarding" -> find(root, NC, "DomainDNSGetEmailForwardingResult")
      [] op = "set_email_forwarding" -> find(root, NC, "DomainDNSSetEmailForwardingResult")
      [] op = "set_hosts" -> find(root, NC, "DomainDNSSetHostsResult")
      [] op = "get_domains" -> find_path(root, NC, "CommandResponse", "DomainGetListResult")
      [] op = "get_domain_info" -> find_path(root, NC, "CommandResponse", "DomainGetInfoResult")
      [] op = "check_domains_availability" -> find(root, NC, "CommandResponse")

\* the list fields and the boolean fields of each operation's result, as the
\* operation returns them when the result element is there
ListFields(op) ==
    CASE op = "get_dns_list" -> {"Nameservers"}
      [] op \in {"get_hosts", "set_hosts"} -> {"Hosts"}
      [] op = "get_email_forwarding" -> {"EmailForwarding"}
      [] op = "get_domains" -> {"Domains"}
      [] op = "check_domains_availability" -> {"Results"}
      [] OTHER -> {}

BoolFields(op) ==
    CASE op \in {"set_default", "set_custom"} -> {"Updated"}
      [] op \in {"get_dns_list", "get_hosts"} -> {"IsUsingOurDNS"}
      [] op \in {"set_email_forwarding", "set_hosts"} -> {"IsSuccess"}
      [] op = "get_domain_info" ->
            {"IsOwner", "IsPremium", "IsOurDNS", "IsPremiumDNS",
             "IsPremiumDNSRegistration", "IsExpired", "IsLocked", "AutoRenew",
             "IsPremiumDomain"}
      [] OTHER -> {}

\* a success response without the operation's result element came back
ResultAbsent ==
    /\ GotDocument
    /\ ReplyStatus = "OK"
    /\ ~IsNotNone(ResultElement(call.op, reply.root))

\* C7: given a success response without the operation's result element,
\* the operation raises nothing and returns a result in which every list
\* field of its result is present and empty and every boolean field is
\* present and false.
C7_DefaultsWhenAbsent ==
    ResultAbsent =>
        /\ ~result.raised
        /\ \A f \in ListFields(call.op) :
              f \in DOMAIN result.value /\ Len(result.value[f]) = 0
        /\ \A f \in BoolFields(call.op) :
              f \in DOMAIN result.value /\ result.value[f] = FALSE

\* the nc:host elements of the get-hosts result element, in document order
ReplyHostElements ==
    SelectSeq(DescendantsOf(ResultElement("get_hosts", reply.root)[1].children),
              LAMBDA e : e.tag = "host" /\ e.ns = NC)

HostFields == {"HostId", "Name", "Type", "Address", "MXPref", "TTL"}

\* C8: for a success response whose get-hosts result element contains N
\* host elements, get_hosts returns a Hosts list of exactly N records in
\* document order, nothing merged, each field of a record the same-named
\* attribute of its element, or the empty string when the attribute is
\* missing.
C8_HostsParsedInOrder ==
    (Called("get_hosts") /\ reply.kind = "doc" /\ ReplyStatus # "ERROR"
        /\ IsNotNone(ResultElement("get_hosts", reply.root))) =>
        /\ ~result.raised
        /\ Len(result.value["Hosts"]) = Len(ReplyHostElements)
        /\ \A i \in 1..Len(ReplyHostElements) :
              /\ DOMAIN result.value["Hosts"][i] = HostFields
              /\ \A f \in HostFields :
                    result.value["Hosts"][i][f] =
                        IF f \in DOMAIN ReplyHostElements[i].attrib
                        THEN ReplyHostElements[i].attrib[f] ELSE ""

\* two equal A records and an MX record came back as three records, the MX
\* record's preference populated and the A records' empty
C8_Witness ==
    /\ Called("get_hosts")
    /\ reply.kind = "doc"
    /\ ReplyStatus = "OK"
    /\ IsNotNone(ResultElement("get_hosts", reply.root))
    /\ ~result.raised
    /\ Len(result.value["Hosts"]) = 3
    /\ result.value["Hosts"][1] = result.value["Hosts"][2]
    /\ result.value["Hosts"][1]["Type"] = "A"
    /\ result.value["Hosts"][1]["MXPref"] = ""
    /\ result.value["Hosts"][3]["Type"] = "MX"
    /\ result.value["Hosts"][3]["MXPref"] = "10"

\* the transport failed, or the body it delivered is not XML
TransportOrParseFailure ==
    pc = "returned" /\ reply.kind \in {"ConnectionError", "malformed"}

\* C11: an operation whose post fails or whose response body is not XML
\* raises, with the failure of the transport or of the parser as it is; an
\* operation returns a value only after one request that was answered by a
\* well-formed document whose Status is not ERROR.
C11_FailsClosed ==
    /\ TransportOrParseFailure =>
          /\ result.raised
          /\ result.exc = IF reply.kind = "malformed" THEN "ParseError"
                          ELSE "ConnectionError"
    /\ (pc = "returned" /\ ~result.raised) =>
          /\ Len(sent) = 1
          /\ reply.kind = "doc"
          /\ ReplyStatus # "ERROR"

\* get_dns_list met a body that is not XML and raised the parser's error
C11_Witness ==
    /\ Called("get_dns_list")
    /\ Len(sent) = 1
    /\ reply.kind = "malformed"
    /\ result.raised
    /\ result.exc = "ParseError"

\* the arguments of the call pass what the operation checks, or trips over,
\* before it builds its request
InputAccepted ==
    CASE call.op \in {"set_default", "get_dns_list", "get_hosts", "get_domain_info"} ->
            HasDot(call.domain_name)
      [] call.op = "set_custom" ->
            HasDot(call.domain_name) /\ Len(call.nameservers) <= 12
      [] call.op = "set_hosts" ->
            /\ HasDot(call.domain_name)
            /\ \A i \in 1..Len(call.hosts) :
                  /\ {"Name", "Type", "Address", "TTL"} \subseteq DOMAIN call.hosts[i]
                  /\ call.hosts[i]["Type"] = "MX" => "MXPref" \in DOMAIN call.hosts[i]
      [] call.op = "set_email_forwarding" ->
            \A i \in 1..Len(call.forwards) : call.forwards[i].class = "EmailForward"
      [] OTHER -> TRUE

\* C12: an operation posts one request when its input is accepted and none
\* when it is not, never more than one: after a failed post, a body that is
\* not XML or an ERROR response the one request stays the only one.
C12_OneCall ==
    pc = "returned" =>
        /\ Len(sent) = IF InputAccepted THEN 1 ELSE 0
        /\ reply # NoReply => Len(sent) = 1
        /\ Len(sent) = 0 =>
              /\ result.raised
              /\ result.exc \in {"ValueError", "KeyError", "AttributeError"}

\* get_domains was refused by the registrar and left it at its one request
C12_Witness ==
    /\ Called("get_domains")
    /\ reply.kind = "doc"
    /\ ReplyStatus = "ERROR"
    /\ result.raised
    /\ Len(sent) = 1

\* a repeated field name with its suffix
Suffixed(name, n) == name \o ToString(n)

\* the parameters every request carries, and those of the domain
CommonKeys == {"ApiUser", "ApiKey", "UserName", "ClientIp", "Command"}

\* the names of the parameters of a set_hosts request for these hosts
HostParamNames(hosts) ==
    {Suffixed(name, i) : name \in {"HostName", "RecordType", "Address", "TTL"},
                         i \in 1..Len(hosts)}
    \cup {Suffixed("MXPref", i) : i \in {n \in 1..Len(hosts) : hosts[n]["Type"] = "MX"}}
    \cup (IF \E i \in 1..Len(hosts) : hosts[i]["Type"] = "MX" THEN {"EmailType"} ELSE {})

\* C13: the request of set_hosts or set_email_forwarding for a list of k
\* items names the repeated fields with the suffixes 1..k and no other, and
\* the fields suffixed i hold the item at the 1-based list position i.
C13_IndexSuffixes ==
    /\ (Called("set_hosts") /\ Len(sent) = 1) =>
          LET params == sent[1].params
              hosts == call.hosts
          IN  /\ DOMAIN params = CommonKeys \cup {"SLD", "TLD"} \cup HostParamNames(hosts)
              /\ \A i \in 1..Len(hosts) :
                    /\ params[Suffixed("HostName", i)] = hosts[i]["Name"]
                    /\ params[Suffixed("RecordType", i)] = hosts[i]["Type"]
                    /\ params[Suffixed("Address", i)] = hosts[i]["Address"]
                    /\ params[Suffixed("TTL", i)] = hosts[i]["TTL"]
                    /\ hosts[i]["Type"] = "MX" =>
                          params[Suffixed("MXPref", i)] = hosts[i]["MXPref"]
    /\ (Called("set_email_forwarding") /\ Len(sent) = 1) =>
          LET params == sent[1].params
              forwards == call.forwards
          IN  /\ DOMAIN params = CommonKeys \cup {"DomainName"}
                    \cup {Suffixed(name, i) : name \in {"MailBox", "ForwardTo"},
                                              i \in 1..Len(forwards)}
              /\ \A i \in 1..Len(forwards) :
                    /\ params[Suffixed("MailBox", i)] = forwards[i].mailbox
                    /\ params[Suffixed("ForwardTo", i)] = forwards[i].forward_to

\* set_hosts sent an A record and then an MX record under the suffixes 1, 2
C13_Witness ==
    /\ Called("set_hosts")
    /\ Len(sent) = 1
    /\ Len(call.hosts) = 2
    /\ call.hosts[1]["Type"] = "A"
    /\ call.hosts[2]["Type"] = "MX"
    /\ sent[1].params["HostName1"] = "www"
    /\ sent[1].params["HostName2"] = "@"
    /\ sent[1].params["MXPref2"] = "5"
    /\ "HostName0" \notin DOMAIN sent[1].params
    /\ "HostName3" \notin DOMAIN sent[1].params

\* C14: get_domains posts its request for every page_size, with PageSize the
\* decimal of page_size when that is at most 100 and of 100 when it is more;
\* if it raises, the failure is the transport's, the registrar's or the
\* parse step's, never a complaint about the size.
C14_PageSizeClamped ==
    Called("get_domains") =>
        /\ Len(sent) = 1
        /\ sent[1].params["PageSize"] =
              ToString(IF call.page_size > 100 THEN 100 ELSE call.page_size)
        /\ result.raised =>
              \/ reply.kind # "doc"
              \/ ReplyStatus = "ERROR"
              \/ result.msg = "invalid literal for int()"

\* a page size of 250 went out as 100 and the list came back
C14_Witness ==
    /\ Called("get_domains")
    /\ call.page_size = 250
    /\ Len(sent) = 1
    /\ sent[1].params["PageSize"] = "100"
    /\ ~result.raised

\* get_dns_list or get_domain_info was answered by a success response with
\* its result element
NameserversParsed ==
    /\ pc = "returned"
    /\ call.op \in {"get_dns_list", "get_domain_info"}
    /\ reply.kind = "doc"
    /\ ReplyStatus # "ERROR"
    /\ IsNotNone(ResultElement(call.op, reply.root))

\* the nameserver elements the operation looks at, in document order
ReplyNameserverElements ==
    IF call.op = "get_dns_list"
    THEN findall(ResultElement(call.op, reply.root)[1], NC, "Nameserver")
    ELSE findall_path(ResultElement(call.op, reply.root)[1], NC, "DNSDetails",
                      "Nameserver")

\* the nameserver list the operation returned
ReturnedNameservers ==
    IF call.op = "get_dns_list" THEN result.value["Nameservers"]
    ELSE result.value["DNSDetails"]["Nameservers"]

\* C17 as stated: the returned list has one entry per nameserver element,
\* the element's text, in document order.
C17_EveryNameserverCollected ==
    NameserversParsed =>
        /\ ~result.raised
        /\ Len(ReturnedNameservers) = Len(ReplyNameserverElements)
        /\ \A i \in 1..Len(ReplyNameserverElements) :
              ReturnedNameservers[i] = ReplyNameserverElements[i].text

\* C17: the returned list has one entry per nameserver element that has
\* text, the element's text, in document order and with nothing merged;
\* the elements without text are left out.
C17_NameserversWithTextCollected ==
    NameserversParsed =>
        LET kept == SelectSeq(ReplyNameserverElements, LAMBDA e : e.text # "")
        IN  /\ ~result.raised
            /\ Len(ReturnedNameservers) = Len(kept)
            /\ \A i \in 1..Len(kept) : ReturnedNameservers[i] = kept[i].text

\* get_dns_list was answered an element without text and then a name, and
\* returned the name alone
C17_Witness ==
    /\ NameserversParsed
    /\ call.op = "get_dns_list"
    /\ Len(ReplyNameserverElements) = 2
    /\ ReplyNameserverElements[1].text = ""
    /\ ReplyNameserverElements[2].text = "dns1.registrar-servers.com"
    /\ ReturnedNameservers = <<"dns1.registrar-servers.com">>

(***************************************************************************)
(* SpecSplit: the splitter applied to every bounded domain name.           *)
(***************************************************************************)
SplitInit ==
    /\ split_pc = "start"
    /\ split_in \in DomainNames
    /\ split_out = NotCalled
    /\ ClientIdle
    /\ AddHostIdle
    /\ MainIdle

Split ==
    /\ split_pc = "start"
    /\ split_pc' = "done"
    /\ split_out' = extract_domain_parts(split_in)
    /\ UNCHANGED <<split_in, clientVars, addHostVars, mainVars>>

SplitNext == Split

SpecSplit == SplitInit /\ [][SplitNext]_vars

SplitDone == split_pc = "done"

\* C1: for every domain name with at least one '.', extract_domain_parts
\* returns (label, suffix): label is the text before the first '.', suffix
\* is everything after it, and label + '.' + suffix is the name again.
C1_SplitRejoin ==
    (SplitDone /\ HasDot(split_in)) =>
        /\ ~split_out.raised
        /\ LET sld == split_out.value.sld
               tld == split_out.value.tld
               i == FirstIndex(split_in, ".")
           IN  /\ sld = SubSeq(split_in, 1, i - 1)
               /\ tld = SubSeq(split_in, i + 1, Len(split_in))
               /\ sld \o <<".">> \o tld = split_in

\* the name a.b.c has been split into a and b.c
C1_Witness ==
    /\ SplitDone
    /\ split_in = <<"a", ".", "b", ".", "c">>
    /\ split_out = Returned([sld |-> <<"a">>, tld |-> <<"b", ".", "c">>])

\* C2: for every domain name with zero dots, the empty one included,
\* extract_domain_parts raises the input-validation error (ValueError) and
\* returns no pair.
C2_NoDotFails ==
    (SplitDone /\ ~HasDot(split_in)) =>
        /\ split_out.raised
        /\ split_out.exc = "ValueError"

\* the empty name has been refused
C2_Witness ==
    /\ SplitDone
    /\ split_in = <<>>
    /\ split_out.raised
    /\ split_out.exc = "ValueError"

(***************************************************************************)
(* SpecMain: main.py from its start, the client constructed from the       *)
(* environment and then one tool invoked at a time with plain inputs.      *)
(***************************************************************************)
\* the values SANDBOX is started with, PyNone for unset
SandboxValues == {PyNone, "true", "True", "TRUE", "false", "False", "1", "yes", ""}

\* the methods class Namecheap defines
NamecheapMethods ==
    {"set_default", "set_custom", "get_dns_list", "get_hosts",
     "get_email_forwarding", "set_email_forwarding", "set_hosts", "get_domains",
     "get_domain_info", "check_domains_availability"}

\* namecheap.<name>(...) for a name the class does not define
NoSuchMethod(name) ==
    FailedLocally(Raised("AttributeError",
                         "'Namecheap' object has no attribute '" \o name \o "'"))

\* return {key: result, 'message': message} unless the call raised
ToolResult(out, key, message) ==
    IF out.result.raised THEN out
    ELSE [requests |-> out.requests,
          result |-> Returned((key :> out.result.value) @@ ("message" :> message))]

\* return {key: result} unless the call raised
ToolValue(out, key) ==
    IF out.result.raised THEN out
    ELSE [requests |-> out.requests, result |-> Returned(key :> out.result.value)]

\* add_host run to its end, get_hosts answered a_reply and set_hosts its_reply
tool_add_host(self, domain_name, hosts, a_reply, its_reply) ==
    LET got == get_hosts(self, domain_name, a_reply)
    IN  IF got.result.raised THEN got
        ELSE LET out == set_hosts(self, domain_name,
                                  extend(hosts, got.result.value["Hosts"]), its_reply)
             IN  ToolResult([requests |-> got.requests \o out.requests,
                             result |-> out.result],
                            "success", "Host added successfully")

\* the answers the tools are given: a failed post, an ERROR response, a
\* success response with an empty CommandResponse, host records, a set done
ToolReplies ==
    {[kind |-> "ConnectionError"], RemoteErrorReply,
     [kind |-> "doc", root |-> ApiResponse([Status |-> "OK"], <<>>, <<>>)],
     RemoteGetHosts(<<ExistingRecord>>), RemoteSetHostsReply}

NotConstructed == [base_url |-> PyNone]

MainInit ==
    /\ env \in {Environ(value) : value \in SandboxValues}
    /\ client = NotConstructed
    /\ pc = "start"
    /\ call = NoCall
    /\ sent = <<>>
    /\ reply = NoReply
    /\ result = NotCalled
    /\ SplitIdle
    /\ AddHostIdle

\* the module is imported: the client is constructed from the environment
Startup ==
    /\ pc = "start"
    /\ client' = main_namecheap(env)
    /\ pc' = "idle"
    /\ UNCHANGED <<call, sent, reply, result, env, splitVars, addHostVars>>

\* the tools of main.py.  namecheap.set_default_dns and
\* namecheap.set_custom_dns: class Namecheap has set_default and set_custom
ToolSetDefaultDns ==
    /\ pc = "idle"
    /\ \E d \in ClientDomains, r \in ToolReplies :
          Finish([op |-> "set_default_dns", domain_name |-> d],
                 ToolResult(NoSuchMethod("set_default_dns"), "success",
                            "Default DNS servers set successfully"), r)

ToolSetCustomDns ==
    /\ pc = "idle"
    /\ \E d \in ClientDomains, r \in ToolReplies,
          ns \in {l \in NameserverLists : Len(l) \in {0, 2, 12, 13}} :
          Finish([op |-> "set_custom_dns", domain_name |-> d, nameservers |-> ns],
                 ToolResult(NoSuchMethod("set_custom_dns"), "success",
                            "Custom DNS servers set successfully"), r)

ToolGetDnsList ==
    /\ pc = "idle"
    /\ \E d \in ClientDomains, r \in ToolReplies :
          Finish([op |-> "get_dns_list", domain_name |-> d],
                 ToolValue(get_dns_list(client, d, r), "dns_servers"), r)

ToolGetHosts ==
    /\ pc = "idle"
    /\ \E d \in ClientDomains, r \in ToolReplies :
          Finish([op |-> "get_hosts", domain_name |-> d],
                 ToolValue(get_hosts(client, d, r), "hosts"), r)

ToolGetEmailForwarding ==
    /\ pc = "idle"
    /\ \E d \in ClientDomains, r \in ToolReplies :
          Finish([op |-> "get_email_forwarding", domain_name |-> d],
                 ToolValue(get_email_forwarding(client, d, r),
                           "email_forwarding"), r)

ToolSetEmailForwarding ==
    /\ pc = "idle"
    /\ \E d \in ClientDomains, r \in ToolReplies,
          fs \in SeqsUpTo({f \in Forwards : f.class = "dict"}, MaxListLen) :
          Finish([op |-> "set_email_forwarding", domain_name |-> d, forwards |-> fs],
                 ToolResult(set_email_forwarding(client, d, fs, r), "success",
                            "Email forwarding set successfully"), r)

ToolGetDomains ==
    /\ pc = "idle"
    /\ \E r \in ToolReplies :
          Finish([op |-> "get_domains"],
                 ToolValue(get_domains(client, 100, 1, PyNone, PyNone, PyNone, r),
                           "domains"), r)

ToolGetDomainInfo ==
    /\ pc = "idle"
    /\ \E d \in ClientDomains, r \in ToolReplies :
          Finish([op |-> "get_domain_info", domain_name |-> d],
                 ToolValue(get_domain_info(client, d, r), "domain_info"), r)

ToolCheckDomainsAvailability ==
    /\ pc = "idle"
    /\ \E ds \in CheckArguments, sug \in BOOLEAN, r \in ToolReplies :
          Finish([op |-> "check_domains_availability", domains |-> ds,
                  suggestions |-> sug],
                 ToolValue(check_domains_availability(client, ds, sug, r),
                           "domains_availability"), r)

ToolSetHosts ==
    /\ pc = "idle"
    /\ \E d \in ClientDomains, hs \in HostLists, r \in ToolReplies :
          Finish([op |-> "set_hosts", domain_name |-> d, hosts |-> hs],
                 ToolResult(set_hosts(client, d, hs, r), "success",
                            "Host records set successfully"), r)

\* reply keeps the answer to the last request add_host made
ToolAddHost ==
    /\ pc = "idle"
    /\ \E d \in ClientDomains, hs \in AddHostLists, r \in ToolReplies,
          its \in ToolReplies :
          LET out == tool_add_host(client, d, hs, r, its)
          IN  Finish([op |-> "add_host", domain_name |-> d, hosts |-> hs], out,
                     IF Len(out.requests) = 2 THEN its ELSE r)

MainNext ==
    \/ Startup
    \/ ToolSetDefaultDns
    \/ ToolSetCustomDns
    \/ ToolGetDnsList
    \/ ToolGetHosts
    \/ ToolGetEmailForwarding
    \/ ToolSetEmailForwarding
    \/ ToolGetDomains
    \/ ToolGetDomainInfo
    \/ ToolCheckDomainsAvailability
    \/ ToolSetHosts
    \/ ToolAddHost
    \/ Return

SpecMain == MainInit /\ [][MainNext]_vars

(***************************************************************************)
(* Properties of main.py (SpecMain).                                       *)
(***************************************************************************)
SandboxUrl == "https://api.sandbox.namecheap.com/xml.response"
ProductionUrl == "https://api.namecheap.com/xml.response"

Constructed == client # NotConstructed

\* C15: the client is constructed for the production endpoint when SANDBOX
\* is false, and for the sandbox endpoint when it is unset or holds anything
\* else.
C15_SandboxUnlessFalse ==
    Constructed =>
        client.base_url = IF env.SANDBOX # PyNone /\ lower(env.SANDBOX) = "false"
                          THEN ProductionUrl ELSE SandboxUrl

\* the remote command each tool stands for, add_host's first
ToolCommand(tool) ==
    CASE tool = "set_default_dns" -> "namecheap.domains.dns.setDefault"
      [] tool = "set_custom_dns" -> "namecheap.domains.dns.setCustom"
      [] tool = "get_dns_list" -> "namecheap.domains.dns.getList"
      [] tool \in {"get_hosts", "add_host"} -> "namecheap.domains.dns.getHosts"
      [] tool = "set_hosts" -> "namecheap.domains.dns.setHosts"
      [] tool = "get_email_forwarding" -> "namecheap.domains.dns.getEmailForwarding"
      [] tool = "set_email_forwarding" -> "namecheap.domains.dns.setEmailForwarding"
      [] tool = "get_domains" -> "namecheap.domains.getList"
      [] tool = "get_domain_info" -> "namecheap.domains.getInfo"
      [] tool = "check_domains_availability" -> "namecheap.domains.check"

\* the tool was given a domain name with a dot, at most 12 nameservers, and
\* host records with the keys the client reads
WellFormedToolInput ==
    /\ "domain_name" \in DOMAIN call => HasDot(call.domain_name)
    /\ "nameservers" \in DOMAIN call => Len(call.nameservers) <= 12
    /\ "hosts" \in DOMAIN call =>
          \A i \in 1..Len(call.hosts) :
              {"Name", "Type", "Address", "TTL"} \subseteq DOMAIN call.hosts[i]

\* C16: a tool invoked with well-formed plain inputs posts the request of
\* its remote command; it does not fail before a request is built.
C16_ToolsReachClient ==
    (pc = "returned" /\ WellFormedToolInput) =>
        /\ Len(sent) >= 1
        /\ CommandOf(sent[1]) = ToolCommand(call.op)

====
